---- MODULE Spec2Model ----
(***************************************************************************)
(* A model of the L2L Dispatch API example client (src/api/main.py): the   *)
(* utility functions dcu and respcheck, and the run of main() against a    *)
(* remote service that answers each request with some HTTP response.       *)
(***************************************************************************)
EXTENDS Integers, Sequences, FiniteSets, TLC

VARIABLES
    \* the state of main()
    pc,                 \* the request site main() is at
    args,               \* the shared parameter dict (line 52)
    resp,               \* the last response received
    data,               \* the last payload respcheck returned with getdata=True
    respjson,           \* the last envelope respcheck returned with getdata=False
    offset,             \* the paging cursor (line 80)
    finished,           \* the paging loop's flag (line 81)
    area_data, line_data, machine_data, dispatchtype_data,
    \* the remote service
    inflight,           \* the request main() is blocked on: {} or one request
    areas,              \* the remote collection of active areas
    \* history
    log,                \* every request issued, in order
    passed,             \* how many responses passed respcheck
    offsets,            \* the offsets the areas requests asked for
    pages,              \* the pages the areas requests returned
    stable,             \* the areas collection has not changed during the run
    sitesResp,          \* the response to the sites query: {} or one response
    outcome,            \* what the last respcheck call did
    \* the inputs of a single call of respcheck or dcu
    getdata, d1, d2, rval, d1_before, called

vars == <<pc, args, resp, data, respjson, offset, finished, area_data,
          line_data, machine_data, dispatchtype_data, inflight, areas, log,
          passed, offsets, pages, stable, sitesResp, outcome,
          getdata, d1, d2, rval, d1_before, called>>

runvars == <<pc, args, resp, data, respjson, offset, finished, area_data,
             line_data, machine_data, dispatchtype_data, inflight, areas, log,
             passed, offsets, pages, stable, sitesResp>>

unitvars == <<getdata, d1, d2, rval, d1_before, called>>

-----------------------------------------------------------------------------
(* Bounds *)

MaxAreas == 5       \* the remote collection holds 0..MaxAreas areas
MaxList == 2        \* a list endpoint returns 0..MaxList items
MaxVal == 4         \* the values of the dicts given to dcu are 1..MaxVal

-----------------------------------------------------------------------------
(* Values *)

\* Python's None
None == [none |-> TRUE]

\* a resource of the remote service, as the JSON object the API returns
Item(k) == [id |-> k, code |-> k, description |-> k]

\* the response bodies: text that is not JSON, or a JSON object
Text(t) == [tag |-> "text", val |-> [text |-> t]]
Json(obj) == [tag |-> "json", val |-> obj]

Response(status, content) == [status_code |-> status, content |-> content]

-----------------------------------------------------------------------------
(* dcu: dict copy & update *)

\* dict.update: every key of d2 set in d, the other keys of d kept
update(d, u) ==
    [k \in DOMAIN d \cup DOMAIN u |-> IF k \in DOMAIN u THEN u[k] ELSE d[k]]

\* a dcu that updates d1 itself and returns it (no copy)
dcu_inplace(base, overrides) ==
    LET r == update(base, overrides)
    IN  [rval |-> r, d1 |-> r]

\* a dcu whose base entries win over the overrides
dcu_basewins(base, overrides) ==
    [rval |-> update(overrides, base), d1 |-> base]

\* dcu(d1, d2): rval is a new dict holding d1's entries, then updated with
\* d2; the result names the dict returned and what d1 holds after the call
dcu(base, overrides) ==
    LET copy == base
        r == update(copy, overrides)
    IN  [rval |-> r, d1 |-> base]

-----------------------------------------------------------------------------
(* respcheck *)

\* requests.Response.ok: raise_for_status() raises for 400 <= status < 600
\* and for no other status
ok(r) == ~(400 <= r.status_code /\ r.status_code < 600)

Return(v) == [kind |-> "return", value |-> v]
Raise(exc, msg) == [kind |-> "raise", exc |-> exc, msg |-> msg]

\* a respcheck that ignores the success field
respcheck_nosuccess(r, gd) ==
    IF ~ok(r)
    THEN Raise("Exception", <<"API call system failure, status: ",
                              r.status_code, ", error: ", r.content>>)
    ELSE IF r.content.tag # "json"
    THEN Raise("JSONDecodeError", <<"Expecting value">>)
    ELSE LET js == r.content.val IN
         IF gd THEN IF "data" \in DOMAIN js THEN Return(js.data)
                    ELSE Raise("KeyError", <<"data">>)
         ELSE Return(js)

\* a respcheck that ignores getdata and always returns the envelope
respcheck_envelope(r, gd) ==
    IF ~ok(r)
    THEN Raise("Exception", <<"API call system failure, status: ",
                              r.status_code, ", error: ", r.content>>)
    ELSE IF r.content.tag # "json"
    THEN Raise("JSONDecodeError", <<"Expecting value">>)
    ELSE LET js == r.content.val IN
         IF "success" \notin DOMAIN js THEN Raise("KeyError", <<"success">>)
         ELSE IF ~js.success
         THEN IF "error" \in DOMAIN js
              THEN Raise("Exception", <<"API call failed, error: ", js.error>>)
              ELSE Raise("KeyError", <<"error">>)
         ELSE Return(js)

\* respcheck(resp, getdata): what the call does, a return or a raise.
\* resp.json() raises a JSONDecodeError for a body that is not JSON, and a
\* missing key of the envelope raises a KeyError.
respcheck(r, gd) ==
    IF ~ok(r)
    THEN Raise("Exception", <<"API call system failure, status: ",
                              r.status_code, ", error: ", r.content>>)
    ELSE IF r.content.tag # "json"
    THEN Raise("JSONDecodeError", <<"Expecting value">>)
    ELSE LET js == r.content.val IN
         IF "success" \notin DOMAIN js THEN Raise("KeyError", <<"success">>)
         ELSE IF ~js.success
         THEN IF "error" \in DOMAIN js
              THEN Raise("Exception", <<"API call failed, error: ", js.error>>)
              ELSE Raise("KeyError", <<"error">>)
         ELSE IF gd THEN IF "data" \in DOMAIN js THEN Return(js.data)
                         ELSE Raise("KeyError", <<"data">>)
         ELSE Return(js)

-----------------------------------------------------------------------------
(* The command line and the requests of main() *)

\* the command line arguments (lines 45-48); the values are opaque
apikey == "apikey"
site == "site"
testuser == "user"

\* the page size of the areas listing
limit == 2

EmptyDict == [k \in {} |-> None]

\* the request sites of main() after the dispatch types are found, in order
TailSteps == <<"clock_in", "clock_out", "clock_in_backdated",
               "set_cycle_count", "increment_cycle_count", "dispatches_open",
               "dispatches_close", "dispatches_add", "record_details",
               "daily_summary">>

IsTailStep(p) == \E i \in 1..Len(TailSteps) : TailSteps[i] = p

\* the request site after p: the next one, or the end of main()
NextStep(p) ==
    LET i == CHOOSE j \in 1..Len(TailSteps) : TailSteps[j] = p
    IN  IF i < Len(TailSteps) THEN TailSteps[i + 1] ELSE "done"

Method(p) == IF p = "daily_summary" THEN "GET" ELSE "POST"

\* the getdata argument of the respcheck call that follows the request
GetData(p) ==
    p \notin {"clock_in", "clock_out", "clock_in_backdated",
              "set_cycle_count", "increment_cycle_count"}

\* the path of the request, below baseurl
Url(p) ==
    CASE p = "clock_in" -> <<"users/clock_in/", testuser>>
      [] p = "clock_out" -> <<"users/clock_out/", testuser>>
      [] p = "clock_in_backdated" -> <<"users/clock_in/", testuser>>
      [] p = "set_cycle_count" -> <<"machines/set_cycle_count/">>
      [] p = "increment_cycle_count" -> <<"machines/increment_cycle_count/">>
      [] p = "dispatches_open" -> <<"dispatches/open/">>
      [] p = "dispatches_close" -> <<"dispatches/close/", data.id>>
      [] p = "dispatches_add" -> <<"dispatches/add/">>
      [] p = "record_details" -> <<"pitchdetails/record_details/">>
      [] p = "daily_summary" ->
            <<"reporting/production/daily_summary_data_by_line/">>

\* the per-call parameters of the request: the dicts the call may pass as
\* dcu's second argument (the random values of record_details differ)
Overrides(p) ==
    CASE p = "clock_in" -> {[linecode |-> line_data.code]}
      [] p = "clock_out" -> {[linecode |-> line_data.code]}
      [] p = "clock_in_backdated" ->
            {[linecode |-> line_data.code,
              start |-> "now - 7 days, %Y-%m-%d %H:%M",
              end |-> "now - 7 days + 8 hours, %Y-%m-%d %H:%M"]}
      [] p = "set_cycle_count" ->
            {[code |-> machine_data.code, cyclecount |-> 832]}
      [] p = "increment_cycle_count" ->
            {[code |-> machine_data.code, skip_lastupdated |-> 1,
              cyclecount |-> 5]}
      [] p = "dispatches_open" ->
            {[dispatchtype |-> dispatchtype_data.id,
              description |-> "l2lsdk test dispatch",
              machine |-> machine_data.id]}
      [] p = "dispatches_close" -> {EmptyDict}
      [] p = "dispatches_add" ->
            {[dispatchtypecode |-> dispatchtype_data.code,
              description |-> "l2lsdk test dispatch (already closed)",
              machinecode |-> machine_data.code,
              reported |-> "now - 60 days, %Y-%m-%d %H:%M:%S",
              completed |-> "now - 60 days + 34 minutes, %Y-%m-%d %H:%M:%S"]}
      [] p = "record_details" ->
            {[linecode |-> line_data.code,
              productcode |-> "testproduct-<time>",
              actual |-> a, scrap |-> s, operator_count |-> o,
              start |-> "now", end |-> "now"] :
                a \in {10, 100}, s \in {5, 20}, o \in {0, 10}}
      [] p = "daily_summary" ->
            {[start |-> "today 00:00, %Y-%m-%d %H:%M",
              end |-> "now + 1 day, %Y-%m-%d %H:%M",
              linecode |-> line_data.code,
              show_products |-> TRUE]}

-----------------------------------------------------------------------------
(* The remote service *)

\* the statuses the transport may report in a run
RunStatuses == {200, 301, 500}

\* the first k resources of a listing
Prefix(k) == [i \in 1..k |-> Item(i)]

\* the page of coll a request with this limit and offset is answered with
Page(coll, lim, off) ==
    LET last == IF off + lim < Len(coll) THEN off + lim ELSE Len(coll)
    IN  SubSeq(coll, off + 1, last)

\* the data of a successful answer to a request
Payloads(req) ==
    CASE req.url[1] = "areas/" ->
            {Page(areas, req.params.limit, req.params.offset)}
      [] req.url[1] \in {"sites/", "lines/", "machines/", "dispatchtypes/"} ->
            {Prefix(k) : k \in 0..MaxList}
      [] OTHER -> {[id |-> "new"]}

\* the responses the transport may hand to main() for a request
Responses(req) ==
    {Response(s, c) :
        s \in RunStatuses,
        c \in {Text("<html>error</html>"),
               Json([success |-> FALSE, error |-> "rejected"]),
               Json([success |-> TRUE])}
              \cup {Json([success |-> TRUE, data |-> d]) : d \in Payloads(req)}}

-----------------------------------------------------------------------------
(* main() *)

\* "if not x:" on a variable that holds None or a JSON object
Falsy(v) == v = None \/ DOMAIN v = {}

\* "if data:" on a list
NonEmpty(d) == Len(d) > 0

\* an uncaught failure retried at the same request site
AfterFailure_retry == pc

\* where main() is after a raise: nothing catches it, the run ends
AfterFailure == "aborted"

\* requests.get / requests.post: the request goes out with a copy of args
\* updated with the per-call parameters, and main() blocks on the response
Issue(method, url, overrides) ==
    LET r == dcu(args, overrides)
    IN  /\ inflight = {}
        /\ inflight' = {[method |-> method, url |-> url, params |-> r.rval]}
        /\ args' = r.d1
        /\ log' = Append(log, [method |-> method, url |-> url])

\* a sites check that only refuses an empty result
InvalidSite_empty(d) == Len(d) = 0

\* line 67: the sites query must return exactly one item
InvalidSite(d) == Len(d) # 1

\* a paging step that takes a full page for the last one
page_step_le(d, off, ad) ==
    IF Len(d) <= limit
    THEN [finished |-> TRUE, offset |-> off,
          area_data |-> IF NonEmpty(d) THEN d[Len(d)] ELSE ad]
    ELSE [finished |-> FALSE, offset |-> off + Len(d), area_data |-> d[Len(d)]]

\* a paging step that selects an area on the last page only
page_step_lastonly(d, off, ad) ==
    IF Len(d) < limit
    THEN [finished |-> TRUE, offset |-> off,
          area_data |-> IF NonEmpty(d) THEN d[Len(d)] ELSE ad]
    ELSE [finished |-> FALSE, offset |-> off + Len(d), area_data |-> ad]

\* lines 88-94: the body of the paging loop after respcheck returned page d
page_step(d, off, ad) ==
    IF Len(d) < limit
    THEN [finished |-> TRUE, offset |-> off,
          area_data |-> IF NonEmpty(d) THEN d[Len(d)] ELSE ad]
    ELSE [finished |-> FALSE, offset |-> off + Len(d), area_data |-> d[Len(d)]]

\* line 65
GetSites ==
    /\ pc = "sites"
    /\ Issue("GET", <<"sites/">>,
             [test_site |-> TRUE, site |-> site, active |-> TRUE])
    /\ UNCHANGED <<pc, resp, data, respjson, offset, finished, area_data,
                   line_data, machine_data, dispatchtype_data, areas, passed,
                   offsets, pages, stable, sitesResp, outcome, unitvars>>

\* lines 66-81
CheckSites ==
    /\ pc = "sites"
    /\ \E req \in inflight : \E r \in Responses(req) :
        LET o == respcheck(r, TRUE)
        IN  /\ resp' = r
            /\ outcome' = o
            /\ sitesResp' = {r}
            /\ inflight' = {}
            /\ IF o.kind = "raise"
               THEN /\ pc' = AfterFailure
                    /\ UNCHANGED <<data, args, passed, area_data, line_data,
                                   machine_data, dispatchtype_data, offset,
                                   finished>>
               ELSE /\ passed' = passed + 1
                    /\ data' = o.value
                    /\ IF InvalidSite(o.value)
                       THEN /\ pc' = AfterFailure
                            /\ UNCHANGED <<args, area_data, line_data,
                                           machine_data, dispatchtype_data,
                                           offset, finished>>
                       ELSE /\ args' = update(args, [site |-> site])
                            /\ area_data' = None
                            /\ line_data' = None
                            /\ machine_data' = None
                            /\ dispatchtype_data' = None
                            /\ offset' = 0
                            /\ finished' = FALSE
                            /\ pc' = "areas"
    /\ UNCHANGED <<respjson, areas, log, offsets, pages, stable, unitvars>>

\* lines 83-86
GetAreas ==
    /\ pc = "areas"
    /\ ~finished
    /\ Issue("GET", <<"areas/">>,
             [active |-> TRUE, limit |-> limit, offset |-> offset])
    /\ offsets' = Append(offsets, offset)
    /\ UNCHANGED <<pc, resp, data, respjson, offset, finished, area_data,
                   line_data, machine_data, dispatchtype_data, areas, passed,
                   pages, stable, sitesResp, outcome, unitvars>>

\* lines 87-97
CheckAreas ==
    /\ pc = "areas"
    /\ \E req \in inflight : \E r \in Responses(req) :
        LET o == respcheck(r, TRUE)
        IN  /\ resp' = r
            /\ outcome' = o
            /\ inflight' = {}
            /\ IF o.kind = "raise"
               THEN /\ pc' = AfterFailure
                    /\ UNCHANGED <<data, passed, pages, offset, finished,
                                   area_data>>
               ELSE LET s == page_step(o.value, offset, area_data)
                    IN  /\ passed' = passed + 1
                        /\ data' = o.value
                        /\ pages' = Append(pages, o.value)
                        /\ offset' = s.offset
                        /\ finished' = s.finished
                        /\ area_data' = s.area_data
                        /\ pc' = IF ~s.finished THEN "areas"
                                 ELSE IF Falsy(s.area_data) THEN AfterFailure
                                 ELSE "lines"
    /\ UNCHANGED <<args, respjson, line_data, machine_data, dispatchtype_data,
                   areas, log, offsets, stable, sitesResp, unitvars>>

\* line 100
GetLines ==
    /\ pc = "lines"
    /\ Issue("GET", <<"lines/">>,
             [area_id |-> area_data.id, active |-> TRUE,
              enable_production |-> TRUE])
    /\ UNCHANGED <<pc, resp, data, respjson, offset, finished, area_data,
                   line_data, machine_data, dispatchtype_data, areas, passed,
                   offsets, pages, stable, sitesResp, outcome, unitvars>>

\* lines 103-108
CheckLines ==
    /\ pc = "lines"
    /\ \E req \in inflight : \E r \in Responses(req) :
        LET o == respcheck(r, TRUE)
        IN  /\ resp' = r
            /\ outcome' = o
            /\ inflight' = {}
            /\ IF o.kind = "raise"
               THEN /\ pc' = AfterFailure
                    /\ UNCHANGED <<data, passed, line_data>>
               ELSE /\ passed' = passed + 1
                    /\ data' = o.value
                    /\ line_data' = IF NonEmpty(o.value) THEN o.value[1]
                                    ELSE line_data
                    /\ pc' = IF Falsy(line_data') THEN AfterFailure
                             ELSE "machines"
    /\ UNCHANGED <<args, respjson, offset, finished, area_data, machine_data,
                   dispatchtype_data, areas, log, offsets, pages, stable,
                   sitesResp, unitvars>>

\* line 111
GetMachines ==
    /\ pc = "machines"
    /\ Issue("GET", <<"machines/">>,
             [line_id |-> line_data.id, active |-> TRUE])
    /\ UNCHANGED <<pc, resp, data, respjson, offset, finished, area_data,
                   line_data, machine_data, dispatchtype_data, areas, passed,
                   offsets, pages, stable, sitesResp, outcome, unitvars>>

\* lines 114-119
CheckMachines ==
    /\ pc = "machines"
    /\ \E req \in inflight : \E r \in Responses(req) :
        LET o == respcheck(r, TRUE)
        IN  /\ resp' = r
            /\ outcome' = o
            /\ inflight' = {}
            /\ IF o.kind = "raise"
               THEN /\ pc' = AfterFailure
                    /\ UNCHANGED <<data, passed, machine_data>>
               ELSE /\ passed' = passed + 1
                    /\ data' = o.value
                    /\ machine_data' = IF NonEmpty(o.value) THEN o.value[1]
                                       ELSE machine_data
                    /\ pc' = IF Falsy(machine_data') THEN AfterFailure
                             ELSE "dispatchtypes"
    /\ UNCHANGED <<args, respjson, offset, finished, area_data, line_data,
                   dispatchtype_data, areas, log, offsets, pages, stable,
                   sitesResp, unitvars>>

\* line 122
GetDispatchTypes ==
    /\ pc = "dispatchtypes"
    /\ Issue("GET", <<"dispatchtypes/">>, [active |-> TRUE])
    /\ UNCHANGED <<pc, resp, data, respjson, offset, finished, area_data,
                   line_data, machine_data, dispatchtype_data, areas, passed,
                   offsets, pages, stable, sitesResp, outcome, unitvars>>

\* lines 125-130
CheckDispatchTypes ==
    /\ pc = "dispatchtypes"
    /\ \E req \in inflight : \E r \in Responses(req) :
        LET o == respcheck(r, TRUE)
        IN  /\ resp' = r
            /\ outcome' = o
            /\ inflight' = {}
            /\ IF o.kind = "raise"
               THEN /\ pc' = AfterFailure
                    /\ UNCHANGED <<data, passed, dispatchtype_data>>
               ELSE /\ passed' = passed + 1
                    /\ data' = o.value
                    /\ dispatchtype_data' = IF NonEmpty(o.value) THEN o.value[1]
                                            ELSE dispatchtype_data
                    /\ pc' = IF Falsy(dispatchtype_data') THEN AfterFailure
                             ELSE TailSteps[1]
    /\ UNCHANGED <<args, respjson, offset, finished, area_data, line_data,
                   machine_data, areas, log, offsets, pages, stable,
                   sitesResp, unitvars>>

\* lines 134-226, the request of each step
Call ==
    /\ IsTailStep(pc)
    /\ \E ov \in Overrides(pc) : Issue(Method(pc), Url(pc), ov)
    /\ UNCHANGED <<pc, resp, data, respjson, offset, finished, area_data,
                   line_data, machine_data, dispatchtype_data, areas, passed,
                   offsets, pages, stable, sitesResp, outcome, unitvars>>

\* lines 134-226, the respcheck and log of each step
Checked ==
    /\ IsTailStep(pc)
    /\ \E req \in inflight : \E r \in Responses(req) :
        LET o == respcheck(r, GetData(pc))
        IN  /\ resp' = r
            /\ outcome' = o
            /\ inflight' = {}
            /\ IF o.kind = "raise"
               THEN /\ pc' = AfterFailure
                    /\ UNCHANGED <<data, respjson, passed>>
               ELSE /\ passed' = passed + 1
                    /\ IF GetData(pc)
                       THEN data' = o.value /\ respjson' = respjson
                       ELSE respjson' = o.value /\ data' = data
                    /\ pc' = NextStep(pc)
    /\ UNCHANGED <<args, offset, finished, area_data, line_data, machine_data,
                   dispatchtype_data, areas, log, offsets, pages, stable,
                   sitesResp, unitvars>>

\* the remote collection changes while main() pages through it: its first
\* area is removed, or a new area is added at its end
Mutate ==
    /\ pc = "areas"
    /\ stable
    /\ offsets # <<>>
    /\ \/ areas # <<>> /\ areas' = Tail(areas)
       \/ areas' = Append(areas, Item(Len(areas) + 1))
    /\ stable' = FALSE
    /\ UNCHANGED <<pc, args, resp, data, respjson, offset, finished,
                   area_data, line_data, machine_data, dispatchtype_data,
                   inflight, log, passed, offsets, pages, sitesResp, outcome,
                   unitvars>>

UnitIdle ==
    /\ getdata = FALSE
    /\ d1 = EmptyDict
    /\ d2 = EmptyDict
    /\ rval = EmptyDict
    /\ d1_before = EmptyDict
    /\ called = FALSE

\* main() after line 52, against a remote collection of 0..MaxAreas areas
Init ==
    /\ pc = "sites"
    /\ args = [auth |-> apikey]
    /\ resp = None
    /\ data = None
    /\ respjson = None
    /\ offset = 0
    /\ finished = FALSE
    /\ area_data = None
    /\ line_data = None
    /\ machine_data = None
    /\ dispatchtype_data = None
    /\ inflight = {}
    /\ areas \in {Prefix(n) : n \in 0..MaxAreas}
    /\ log = <<>>
    /\ passed = 0
    /\ offsets = <<>>
    /\ pages = <<>>
    /\ stable = TRUE
    /\ sitesResp = {}
    /\ outcome = [kind |-> "none"]
    /\ UnitIdle

Next ==
    \/ GetSites \/ CheckSites
    \/ GetAreas \/ CheckAreas
    \/ GetLines \/ CheckLines
    \/ GetMachines \/ CheckMachines
    \/ GetDispatchTypes \/ CheckDispatchTypes
    \/ Call \/ Checked
    \/ Mutate

Spec == Init /\ [][Next]_vars

-----------------------------------------------------------------------------
(* One call of respcheck, and one call of dcu, on inputs drawn from sets *)

\* main() is not running: p names the function under call
RunIdle(p) ==
    /\ pc = p
    /\ args = [auth |-> apikey]
    /\ data = None
    /\ respjson = None
    /\ offset = 0
    /\ finished = FALSE
    /\ area_data = None
    /\ line_data = None
    /\ machine_data = None
    /\ dispatchtype_data = None
    /\ inflight = {}
    /\ areas = <<>>
    /\ log = <<>>
    /\ passed = 0
    /\ offsets = <<>>
    /\ pages = <<>>
    /\ stable = TRUE
    /\ sitesResp = {}
    /\ outcome = [kind |-> "none"]

\* statuses of every class, with the edges of the 2xx and 4xx-5xx ranges
UnitStatuses ==
    {100, 199, 200, 201, 204, 299, 300, 301, 304, 399, 400, 404, 499, 500,
     503, 599}

\* JSON objects a data field may hold
UnitPayloads == {Item(k) : k \in 1..MaxList} \cup {EmptyDict}

UnitErrors == {"not found", "invalid"}

\* bodies: not JSON; envelopes of a success and of a failure; objects with
\* a field of the envelope missing
UnitBodies ==
    {Text("<html>error</html>"), Text("")}
    \cup {Json([success |-> TRUE, data |-> d]) : d \in UnitPayloads}
    \cup {Json([success |-> FALSE, error |-> e]) : e \in UnitErrors}
    \cup {Json([success |-> TRUE]), Json([success |-> FALSE]),
          Json([data |-> EmptyDict])}

InitRespcheck ==
    /\ RunIdle("respcheck")
    /\ resp \in {Response(s, c) : s \in UnitStatuses, c \in UnitBodies}
    /\ getdata \in BOOLEAN
    /\ d1 = EmptyDict
    /\ d2 = EmptyDict
    /\ rval = EmptyDict
    /\ d1_before = EmptyDict
    /\ called = FALSE

Call_respcheck ==
    /\ pc = "respcheck"
    /\ ~called
    /\ outcome' = respcheck(resp, getdata)
    /\ called' = TRUE
    /\ UNCHANGED <<pc, args, resp, data, respjson, offset, finished,
                   area_data, line_data, machine_data, dispatchtype_data,
                   inflight, areas, log, passed, offsets, pages, stable,
                   sitesResp, getdata, d1, d2, rval, d1_before>>

SpecRespcheck == InitRespcheck /\ [][Call_respcheck]_vars

\* the dicts over three keys with values 1..MaxVal
UnitDicts == UNION {[S -> 1..MaxVal] : S \in SUBSET {"a", "b", "c"}}

InitDcu ==
    /\ RunIdle("dcu")
    /\ resp = None
    /\ getdata = FALSE
    /\ d1 \in UnitDicts
    /\ d2 \in UnitDicts
    /\ rval = EmptyDict
    /\ d1_before = d1
    /\ called = FALSE

Call_dcu ==
    /\ pc = "dcu"
    /\ ~called
    /\ LET r == dcu(d1, d2)
       IN  rval' = r.rval /\ d1' = r.d1
    /\ called' = TRUE
    /\ UNCHANGED <<runvars, outcome, getdata, d2, d1_before>>

SpecDcu == InitDcu /\ [][Call_dcu]_vars

-----------------------------------------------------------------------------
(* The claims *)

\* the failure of line 248
IsSystemFailure(o) ==
    /\ o.kind = "raise"
    /\ o.exc = "Exception"
    /\ o.msg[1] = "API call system failure, status: "

\* the failure of line 254
IsApplicationFailure(o) ==
    /\ o.kind = "raise"
    /\ o.exc = "Exception"
    /\ o.msg[1] = "API call failed, error: "

Is2xx(r) == r.status_code \in 200..299

\* C1: for every response whose status is outside 200-299, whatever the body
\* and getdata, respcheck raises the system failure carrying the status code
\* and the raw body, and returns no payload.
C1_NonSuccessStatusIsSystemFailure ==
    (called /\ ~Is2xx(resp)) =>
        /\ IsSystemFailure(outcome)
        /\ outcome.msg[2] = resp.status_code
        /\ outcome.msg[4] = resp.content

\* C2: for every 2xx response whose JSON body has success = false and
\* error = E, respcheck raises the application failure, which is not the
\* system failure, with a message carrying E, for either getdata.
C2_ApplicationFailure ==
    (/\ called
     /\ Is2xx(resp)
     /\ resp.content.tag = "json"
     /\ "success" \in DOMAIN resp.content.val
     /\ ~resp.content.val.success
     /\ "error" \in DOMAIN resp.content.val) =>
        /\ IsApplicationFailure(outcome)
        /\ ~IsSystemFailure(outcome)
        /\ outcome.msg = <<"API call failed, error: ", resp.content.val.error>>

C2_Witness ==
    /\ called
    /\ ~getdata
    /\ resp = Response(204, Json([success |-> FALSE, error |-> "not found"]))
    /\ IsApplicationFailure(outcome)

\* C3: for every 2xx response whose JSON body has success = true and
\* data = D, respcheck returns D with getdata, and the whole envelope
\* without it, and raises nothing.
C3_Payload ==
    (/\ called
     /\ Is2xx(resp)
     /\ resp.content.tag = "json"
     /\ "success" \in DOMAIN resp.content.val
     /\ resp.content.val.success
     /\ "data" \in DOMAIN resp.content.val) =>
        /\ outcome.kind = "return"
        /\ outcome.value = IF getdata THEN resp.content.val.data
                           ELSE resp.content.val

C3_Witness ==
    /\ called
    /\ getdata
    /\ resp = Response(201, Json([success |-> TRUE, data |-> Item(2)]))
    /\ outcome = Return(Item(2))

\* C4: for every 2xx response whose body is not JSON, respcheck raises the
\* same kind of error as for a status outside 2xx, the system failure.
C4_UnparseableIsSystemFailure ==
    (called /\ Is2xx(resp) /\ resp.content.tag # "json") =>
        IsSystemFailure(outcome)

\* C5: dcu(base, overrides) returns a dict whose keys are those of both,
\* with the value of overrides for its keys and the value of base for the
\* others, and base holds after the call what it held before.
C5_Merge ==
    called =>
        /\ DOMAIN rval = DOMAIN d1_before \cup DOMAIN d2
        /\ \A k \in DOMAIN rval :
              rval[k] = IF k \in DOMAIN d2 THEN d2[k] ELSE d1_before[k]
        /\ d1 = d1_before

C5_Witness ==
    /\ called
    /\ d1_before = [a |-> 1, b |-> 2]
    /\ d2 = [b |-> 3, c |-> 4]
    /\ rval = [a |-> 1, b |-> 3, c |-> 4]
    /\ d1 = [a |-> 1, b |-> 2]

RECURSIVE Flatten(_)
Flatten(ps) == IF ps = <<>> THEN <<>> ELSE Head(ps) \o Flatten(Tail(ps))

\* C6: against a stable collection of N areas the loop requests the offsets
\* 0, limit, 2*limit, ..., each request after the first following a full
\* page; when it has finished, the pages received are the N items in order,
\* each once, the last page is the first with fewer than limit items, and no
\* request followed it.
C6_Paging ==
    stable =>
        /\ offsets = [i \in 1..Len(offsets) |-> (i - 1) * limit]
        /\ Len(pages) <= Len(offsets)
        /\ Len(offsets) <= Len(pages) + 1
        /\ \A i \in 1..Len(pages) :
              i < Len(offsets) => Len(pages[i]) = limit
        /\ finished =>
              /\ Len(offsets) = Len(pages)
              /\ Len(pages[Len(pages)]) < limit
              /\ Flatten(pages) = areas
              /\ Len(pages) = (Len(areas) \div limit) + 1

C6_Witness ==
    /\ stable
    /\ finished
    /\ Len(areas) = 5
    /\ offsets = <<0, 2, 4>>
    /\ pages = <<SubSeq(areas, 1, 2), SubSeq(areas, 3, 4), SubSeq(areas, 5, 5)>>

C8_BaseNeverChanges == [][args' = args]_vars

\* C8 as amended: the only step that changes the base parameter dict is the
\* one that adds the validated site id to it after the sites check.
C8_BaseChangesOnlyBySite ==
    [][args' # args =>
            /\ pc = "sites"
            /\ pc' = "areas"
            /\ args = [auth |-> apikey]
            /\ args' = [auth |-> apikey, site |-> site]]_vars

C8_Witness ==
    /\ pc = "done"
    /\ args = [auth |-> apikey, site |-> site]

\* the sites query was answered with success = true and exactly one item
SitesOne ==
    \E r \in sitesResp :
        /\ r.content.tag = "json"
        /\ "success" \in DOMAIN r.content.val
        /\ r.content.val.success
        /\ "data" \in DOMAIN r.content.val
        /\ Len(r.content.val.data) = 1

Posted == \E i \in 1..Len(log) : log[i].method = "POST"

\* C9: a POST is issued, and the site id is in the shared parameters, only
\* after the sites query succeeded with exactly one item; a result of 0 or
\* of 2 or more items ends the run.
C9_WritesOnlyAfterSiteCheck ==
    /\ (Posted \/ "site" \in DOMAIN args) => SitesOne
    /\ (sitesResp # {} /\ ~SitesOne) => pc = "aborted"

C9_Witness == Posted /\ SitesOne /\ "site" \in DOMAIN args

\* C10: when the loop has finished against a stable collection of N areas,
\* the selected area is the last of the N for N >= 1; for N = 0 none is
\* selected, the run has ended on the missing area, and no lines request
\* was issued.
C10_LastArea ==
    (stable /\ finished) =>
        IF Len(areas) >= 1
        THEN area_data = areas[Len(areas)]
        ELSE /\ area_data = None
             /\ pc = "aborted"
             /\ outcome.kind = "return"
             /\ \A i \in 1..Len(log) : log[i].url[1] # "lines/"

C10_Witness ==
    /\ stable
    /\ finished
    /\ Len(areas) = 4
    /\ pages = <<SubSeq(areas, 1, 2), SubSeq(areas, 3, 4), <<>>>>
    /\ area_data = areas[4]
    /\ pc = "lines"

====
